---- MODULE Spec2Model ----
(***************************************************************************)
(* Model of the behaviour-driven animation engine of stream-companion:     *)
(* AnimationSequencer (frontend/shared/js/AnimationSequencer.js), the      *)
(* overlay's renderElement integration and the element property validator. *)
(*                                                                         *)
(* Times are milliseconds.  Opacity and scale are percentages (1.0 = 100). *)
(* A property map is a function over Props; NoVal marks an absent key.     *)
(* The value of a tween strictly between its two ends is the token Mid.    *)
(***************************************************************************)
EXTENDS Integers, Sequences, FiniteSets, TLC

\* ------------------------------------------------------------------ bounds
TickMs == 300
MaxOrphans == 1
MaxSteps == 3

\* ------------------------------------------------------- program constants
DefaultAppearMs == 500
DefaultEntryMs == 1000
DefaultAnimateMs == 1000
DefaultWaitMs == 1000
DefaultDisappearMs == 500
InnerWidth == 1920

\* --------------------------------------------------------- property maps
NoVal == 0 - 9999
Mid == 0 - 7777
NoDur == 0 - 1

Props == {"opacity", "x", "y", "scale", "rotation", "rotationY",
          "visibility", "color", "media_roles"}

NoMap == [p \in Props |-> NoVal]

MapOf(S) == [p \in Props |-> IF \E q \in S : q[1] = p
                             THEN (CHOOSE q \in S : q[1] = p)[2]
                             ELSE NoVal]

Keys(m) == {p \in Props : m[p] # NoVal}

\* gsap.set(target, m): every key of m is written to the target
Apply(e, m) == [p \in Props |-> IF m[p] # NoVal THEN m[p] ELSE e[p]]

\* the values the target has for the keys of m
Capture(e, m) == [p \in Props |-> IF m[p] # NoVal THEN e[p] ELSE NoVal]

MidOf(m) == [p \in Props |-> IF m[p] # NoVal THEN Mid ELSE NoVal]

\* { opacity: 0, transform: 'none' }
ResetMap == MapOf({<<"opacity", 0>>, <<"x", 0>>, <<"y", 0>>, <<"scale", 100>>,
                   <<"rotation", 0>>, <<"rotationY", 0>>})

\* -------------------------------------------------------------- catalogs
AnimationNames == {"fade-in", "fade-out", "slide-in", "slide-out", "scale-in",
                   "scale-out", "explosion", "pop", "spin", "flip", "zoom",
                   "fly", "swipe"}

\* animationCatalog: name -> sequence of <<property, values>>
animationCatalog(name) ==
    CASE name = "fade-in"   -> << <<"opacity", <<0, 100>> >> >>
      [] name = "fade-out"  -> << <<"opacity", <<100, 0>> >> >>
      [] name = "slide-in"  -> << <<"x", <<0 - 100, 0>> >>, <<"opacity", <<0, 100>> >> >>
      [] name = "slide-out" -> << <<"x", <<0, 100>> >>, <<"opacity", <<100, 0>> >> >>
      [] name = "scale-in"  -> << <<"scale", <<0, 100>> >>, <<"opacity", <<0, 100>> >> >>
      [] name = "scale-out" -> << <<"scale", <<100, 0>> >>, <<"opacity", <<100, 0>> >> >>
      [] name = "explosion" -> << <<"scale", <<0, 100>> >>, <<"opacity", <<0, 100>> >> >>
      [] name = "pop"       -> << <<"scale", <<50, 120, 100>> >>, <<"opacity", <<0, 100, 100>> >> >>
      [] name = "spin"      -> << <<"rotation", <<0, 360>> >> >>
      [] name = "flip"      -> << <<"rotationY", <<0, 360>> >> >>
      [] name = "zoom"      -> << <<"scale", <<50, 100>> >> >>
      [] name = "fly"       -> << <<"x", <<0 - 200, 0>> >>, <<"y", <<0 - 200, 0>> >>,
                                  <<"opacity", <<0, 100>> >> >>
      [] name = "swipe"     -> << <<"x", <<InnerWidth, 0>> >>, <<"opacity", <<0, 100>> >> >>
      [] OTHER              -> << >>

\* _buildAnimationProps: first value of each array is the from value, the
\* last one the to value; an unknown name gives { null, null }
_buildAnimationProps(name) ==
    IF name \notin AnimationNames
    THEN [known |-> FALSE, fromProps |-> NoMap, toProps |-> NoMap]
    ELSE LET c == animationCatalog(name)
         IN [known |-> TRUE,
             fromProps |-> MapOf({<<c[i][1], c[i][2][1]>> : i \in 1..Len(c)}),
             toProps   |-> MapOf({<<c[i][1], c[i][2][Len(c[i][2])]>> : i \in 1..Len(c)})]

EasingNames == {"linear", "ease-in", "ease-out", "ease-in-out", "cubic-bezier"}

easingCatalog(name) ==
    CASE name = "linear"       -> "none"
      [] name = "ease-in"      -> "power1.in"
      [] name = "ease-out"     -> "power1.out"
      [] name = "ease-in-out"  -> "power1.inOut"
      [] name = "cubic-bezier" -> "power2.inOut"
      [] OTHER                 -> "undefined"

\* mutant: the easing lookup without its fallback
ResolveEasingNoFallback(modulation) ==
    IF modulation.shape = "absent" THEN "power1.inOut"
    ELSE IF modulation.shape \in {"string", "object"} THEN easingCatalog(modulation.name)
    ELSE "power1.inOut"

\* a modulation is [shape, name]: shape "absent" (undefined/null/""),
\* "string" (name is the string), "object" (name is its .type, "" if none),
\* "other" (a number, true, ...)
_resolveEasing(modulation) ==
    IF modulation.shape = "absent" THEN "power1.inOut"
    ELSE IF modulation.shape = "string"
         THEN IF modulation.name \in EasingNames
              THEN easingCatalog(modulation.name) ELSE "power1.inOut"
    ELSE IF modulation.shape = "object" /\ modulation.name # ""
         THEN IF modulation.name \in EasingNames
              THEN easingCatalog(modulation.name) ELSE "power1.inOut"
    ELSE "power1.inOut"

\* x || dflt for a duration field: absent and 0 are falsy
OrDefault(d, dflt) == IF d = NoDur \/ d = 0 THEN dflt ELSE d

\* ------------------------------------------------------- steps (inputs)
\* A step is [shape, type, animation, duration, propsShape, entries, setProps]:
\*   shape      "object", or "null" / "number" / "string" for a non-object entry
\*   animation  "" when the field is absent
\*   duration   NoDur when the field is absent
\*   propsShape shape of `properties`: "absent", "array" or "object"
\*   entries    the animate_property list; setProps the map of a set step
NoMod == [shape |-> "absent", name |-> ""]

StepOf(t, a, d) == [shape |-> "object", type |-> t, animation |-> a, duration |-> d,
                    propsShape |-> "absent", entries |-> << >>, setProps |-> NoMap]

NonObject(sh) == [StepOf("", "", NoDur) EXCEPT !.shape = sh]

Entry(p, v, d, m) == [shape |-> "object", property |-> p, to |-> v, duration |-> d,
                      modulation |-> m]

NullEntry == [Entry("", 0, NoDur, NoMod) EXCEPT !.shape = "null"]

\* a number in the list: its .property, .to, .duration are undefined
NumberEntry == [Entry("", 0, NoDur, NoMod) EXCEPT !.shape = "number"]

AnimProp(es) == [StepOf("animate_property", "", NoDur) EXCEPT
                    !.propsShape = "array", !.entries = es]

SetStep(m) == [StepOf("set", "", NoDur) EXCEPT !.propsShape = "object", !.setProps = m]

\* ------------------------------------------------------ the gsap timeline
\* A child is one tween of the timeline:
\*   step   index (from 0) of the behavior step that added it
\*   kind   "fromTo", "to" or "set";  target "el" or "dummy" ({} of a wait)
\*   init   whether the tween has rendered once; cap the start values it
\*          recorded then
Child(i, k, tg, d, f, t, e) ==
    [step |-> i, kind |-> k, target |-> tg, start |-> 0, dur |-> d,
     from |-> f, to |-> t, ease |-> e, init |-> FALSE, cap |-> NoMap]

Max(a, b) == IF a >= b THEN a ELSE b
Min(a, b) == IF a <= b THEN a ELSE b

EndOf(c) == c.start + c.dur

RECURSIVE tlDuration(_)
\* timeline.duration(): the latest end among the children
tlDuration(children) ==
    IF children = << >> THEN 0
    ELSE Max(EndOf(children[Len(children)]), tlDuration(SubSeq(children, 1, Len(children) - 1)))

\* The position argument of timeline.to / fromTo / set:
\*   "none"  no argument: the end of the timeline
\*   "<"     the start of the most recently added child (0 when there is none)
\*   ""      the empty string: the library coerces it to the number 0
\*           (emptyPos = "zero"); the comment at the call site expects the
\*           tween to follow sequentially (emptyPos = "end")
_parsePosition(children, position, emptyPos) ==
    CASE position = "none" -> tlDuration(children)
      [] position = "<"    -> IF children = << >> THEN 0
                              ELSE children[Len(children)].start
      [] position = ""     -> IF emptyPos = "zero" THEN 0 ELSE tlDuration(children)

\* timeline.to/fromTo/set: the child is placed and becomes the most recent one
tlAdd(children, c, position, emptyPos) ==
    Append(children, [c EXCEPT !.start = _parsePosition(children, position, emptyPos)])

\* ---------------------------------------------------- the step interpreter
\* The builder state is [children, el]: the timeline under construction and
\* the DOM element (a fromTo tween renders its from values when created).

\* mutant: the unknown-animation check of the appear step is missing
AppearStepUnchecked(b, step, i, emptyPos) ==
    LET r == _buildAnimationProps(IF step.animation = "" THEN "fade-in" ELSE step.animation)
    IN [children |-> tlAdd(b.children,
                           Child(i, "fromTo", "el", OrDefault(step.duration, DefaultAppearMs),
                                 r.fromProps, r.toProps, "power2.out"),
                           "none", emptyPos),
        el |-> Apply(b.el, r.fromProps)]

_addAppearStep(b, step, i, emptyPos) ==
    LET duration  == OrDefault(step.duration, DefaultAppearMs)
        animation == IF step.animation = "" THEN "fade-in" ELSE step.animation
        r         == _buildAnimationProps(animation)
    IN IF ~r.known THEN b
       ELSE [children |-> tlAdd(b.children,
                                Child(i, "fromTo", "el", duration, r.fromProps, r.toProps,
                                      "power2.out"),
                                "none", emptyPos),
             el |-> Apply(b.el, r.fromProps)]

EntryTo(e) == IF e.property \in Props THEN MapOf({<<e.property, e.to>>}) ELSE NoMap

RECURSIVE AddEntries(_, _, _, _, _)
\* the for-of loop over properties, from entry k on; a null entry throws on
\* propAnim.property and the loop is left with the tweens added so far; any
\* other entry gets a tween, with no property to animate when the entry
\* names none the element has
AddEntries(b, entries, k, i, emptyPos) ==
    IF k > Len(entries) THEN b
    ELSE LET e == entries[k] IN
         IF e.shape = "null" THEN b
         ELSE LET duration == OrDefault(e.duration, DefaultEntryMs)
                  easing   == _resolveEasing(IF e.modulation.shape = "absent"
                                             THEN [shape |-> "string", name |-> "linear"]
                                             ELSE e.modulation)
                  c        == Child(i, "to", "el", duration, NoMap, EntryTo(e), easing)
              IN AddEntries([b EXCEPT !.children =
                                tlAdd(b.children, c, IF k = 1 THEN "<" ELSE "", emptyPos)],
                            entries, k + 1, i, emptyPos)

_addAnimatePropertyStep(b, step, i, emptyPos) ==
    IF step.propsShape # "array" \/ Len(step.entries) = 0 THEN b
    ELSE AddEntries(b, step.entries, 1, i, emptyPos)

_addAnimateStep(b, step, i, emptyPos) ==
    LET duration == OrDefault(step.duration, DefaultAnimateMs)
        r        == _buildAnimationProps(step.animation)
    IN IF step.animation = "" THEN b
       ELSE IF ~r.known THEN b
       ELSE [b EXCEPT !.children =
                tlAdd(b.children,
                      Child(i, "to", "el", duration, NoMap, r.toProps, "power2.out"),
                      "none", emptyPos)]

_addWaitStep(b, step, i, emptyPos) ==
    [b EXCEPT !.children =
        tlAdd(b.children,
              Child(i, "to", "dummy", OrDefault(step.duration, DefaultWaitMs), NoMap, NoMap,
                    "default"),
              "none", emptyPos)]

_addSetStep(b, step, i, emptyPos) ==
    [b EXCEPT !.children =
        tlAdd(b.children,
              Child(i, "set", "el", 0, NoMap,
                    IF step.propsShape = "absent" THEN NoMap ELSE step.setProps, "default"),
              "none", emptyPos)]

HiddenMap == MapOf({<<"visibility", 1>>})

\* mutant: a disappear step that hides the element whatever its animation
DisappearStepUnchecked(b, step, i, emptyPos) ==
    LET duration  == OrDefault(step.duration, DefaultDisappearMs)
        animation == IF step.animation = "" THEN "fade-out" ELSE step.animation
        r         == _buildAnimationProps(animation)
        c1        == IF r.known
                     THEN tlAdd(b.children,
                                Child(i, "to", "el", duration, NoMap, r.toProps, "power2.in"),
                                "none", emptyPos)
                     ELSE b.children
    IN [b EXCEPT !.children =
           tlAdd(c1, Child(i, "set", "el", 0, NoMap, HiddenMap, "default"),
                 "none", emptyPos)]

_addDisappearStep(b, step, i, emptyPos) ==
    LET duration  == OrDefault(step.duration, DefaultDisappearMs)
        animation == IF step.animation = "" THEN "fade-out" ELSE step.animation
        r         == _buildAnimationProps(animation)
        c1        == tlAdd(b.children,
                           Child(i, "to", "el", duration, NoMap, r.toProps, "power2.in"),
                           "none", emptyPos)
    IN IF ~r.known THEN b
       ELSE [b EXCEPT !.children =
                tlAdd(c1, Child(i, "set", "el", 0, NoMap, HiddenMap, "default"),
                      "none", emptyPos)]

_addStep(b, step, i, emptyPos) ==
    IF step.shape # "object" THEN b
    ELSE CASE step.type = "appear"           -> _addAppearStep(b, step, i, emptyPos)
           [] step.type = "animate_property" -> _addAnimatePropertyStep(b, step, i, emptyPos)
           [] step.type = "animate"          -> _addAnimateStep(b, step, i, emptyPos)
           [] step.type = "wait"             -> _addWaitStep(b, step, i, emptyPos)
           [] step.type = "set"              -> _addSetStep(b, step, i, emptyPos)
           [] step.type = "disappear"        -> _addDisappearStep(b, step, i, emptyPos)
           [] OTHER                          -> b

RECURSIVE BuildLoop(_, _, _, _)
\* the for loop of build(): steps k..Len(steps), step index k-1
BuildLoop(b, steps, k, emptyPos) ==
    IF k > Len(steps) THEN b
    ELSE BuildLoop(_addStep(b, steps[k], k - 1, emptyPos), steps, k + 1, emptyPos)

\* ------------------------------------------------------------ rendering
\* The render state is [children, el].  A timeline renders its children in
\* the order of their start times (insertion order among equal starts) when
\* the playhead moves forward, and in the opposite order when it moves back.

RECURSIVE SortIdx(_, _)
SortIdx(children, S) ==
    IF S = {} THEN << >>
    ELSE LET m == CHOOSE i \in S : \A j \in S :
                      \/ children[i].start < children[j].start
                      \/ children[i].start = children[j].start /\ i <= j
         IN <<m>> \o SortIdx(children, S \ {m})

Reverse(q) == [i \in 1..Len(q) |-> q[Len(q) + 1 - i]]

Started(c, e) == [c EXCEPT !.init = TRUE,
                           !.cap = IF c.init THEN c.cap ELSE Capture(e, c.to)]

\* one child rendered for a playhead move from t0 to t1 >= t0
RenderForward(c, e, t0, t1) ==
    IF c.target # "el" THEN [c |-> c, el |-> e]
    ELSE IF c.kind = "set"
    THEN IF c.start <= t1 /\ (t0 < c.start \/ ~c.init)
         THEN [c |-> Started(c, e), el |-> Apply(e, c.to)]
         ELSE [c |-> c, el |-> e]
    ELSE IF c.start <= t1 /\ t0 < EndOf(c) /\ (t0 < t1 \/ ~c.init)
    THEN LET c2 == Started(c, e)
             lt == t1 - c.start
         IN [c |-> c2,
             el |-> IF lt = 0
                    THEN Apply(e, IF c.kind = "fromTo" THEN c.from ELSE c2.cap)
                    ELSE IF lt < c.dur THEN Apply(e, MidOf(c.to))
                    ELSE Apply(e, c.to)]
    ELSE [c |-> c, el |-> e]

\* one child rendered for a playhead move from t0 back to t1 < t0
RenderBackward(c, e, t0, t1) ==
    IF c.target # "el" \/ ~c.init THEN [c |-> c, el |-> e]
    ELSE IF c.kind = "set"
    THEN IF t1 < c.start /\ c.start <= t0
         THEN [c |-> c, el |-> Apply(e, c.cap)]
         ELSE [c |-> c, el |-> e]
    ELSE IF t0 > c.start /\ t1 < EndOf(c)
    THEN [c |-> c,
          el |-> IF t1 > c.start THEN Apply(e, MidOf(c.to))
                 ELSE Apply(e, IF c.kind = "fromTo" THEN c.from ELSE c.cap)]
    ELSE [c |-> c, el |-> e]

RECURSIVE RenderSeq(_, _, _, _, _)
RenderSeq(children, e, order, t0, t1) ==
    IF order = << >> THEN [children |-> children, el |-> e]
    ELSE LET i == Head(order)
             r == IF t1 >= t0 THEN RenderForward(children[i], e, t0, t1)
                  ELSE RenderBackward(children[i], e, t0, t1)
         IN RenderSeq([children EXCEPT ![i] = r.c], r.el, Tail(order), t0, t1)

\* timeline.totalTime(t1) from playhead t0
tlRender(children, e, t0, t1) ==
    LET order == SortIdx(children, 1..Len(children))
    IN RenderSeq(children, e, IF t1 >= t0 THEN order ELSE Reverse(order), t0, t1)

\* -------------------------------------------------------- the Sequencer
\* A Sequencer is [behavior, children, time, paused, onComplete, isPlaying];
\* behavior is [isArray, steps].  Methods map [s, el] to [s, el].
EmptyBehavior == [isArray |-> TRUE, steps |-> << >>]

\* constructor: this.behavior = behavior || []; a paused, empty timeline
NewSequencer(behavior) ==
    [behavior |-> behavior, children |-> << >>, time |-> 0, paused |-> TRUE,
     onComplete |-> FALSE, isPlaying |-> FALSE]

getDuration(s) == tlDuration(s.children)

\* mutant: build without timeline.clear(): the steps are added to what is there
BuildNoClear(s, e, emptyPos) ==
    IF ~s.behavior.isArray THEN [s |-> s, el |-> e]
    ELSE LET b == BuildLoop([children |-> s.children, el |-> e], s.behavior.steps, 1, emptyPos)
         IN [s |-> [s EXCEPT !.children = b.children, !.time = 0, !.onComplete = TRUE],
             el |-> b.el]

build(s, e, emptyPos) ==
    IF ~s.behavior.isArray THEN [s |-> s, el |-> e]
    ELSE LET b == BuildLoop([children |-> << >>, el |-> e], s.behavior.steps, 1, emptyPos)
         IN [s |-> [s EXCEPT !.children = b.children, !.time = 0, !.onComplete = TRUE],
             el |-> b.el]

\* timeline.restart(): unpause and move the playhead to 0, events suppressed
tlRestart(s, e) ==
    LET r == tlRender(s.children, e, s.time, 0)
    IN [s |-> [s EXCEPT !.children = r.children, !.time = 0, !.paused = FALSE],
        el |-> r.el]

\* timeline.progress(v), v in percent; reaching the end (or any render of a
\* timeline of zero duration) runs the completion callback
tlProgress(s, e, v) ==
    LET dur == getDuration(s)
        t1  == (dur * v) \div 100
        r   == tlRender(s.children, e, s.time, t1)
        done == s.onComplete /\ (dur = 0 \/ (t1 = dur /\ s.time < dur))
    IN [s |-> [s EXCEPT !.children = r.children, !.time = t1,
                        !.isPlaying = IF done THEN FALSE ELSE @],
        el |-> r.el]

\* mutant: play without the guard on an empty timeline
PlayUnguarded(s, e) == tlRestart([s EXCEPT !.isPlaying = TRUE], e)

\* mutant: stop without the reset of the element
StopNoReset(s, e) ==
    tlProgress([s EXCEPT !.isPlaying = FALSE, !.paused = TRUE], e, 0)

\* mutant: stop that rewinds the timeline but leaves it running
StopNoPause(s, e) ==
    LET r == tlProgress([s EXCEPT !.isPlaying = FALSE], e, 0)
    IN [s |-> r.s, el |-> Apply(r.el, ResetMap)]

\* mutant: play that resumes (timeline.play() in place of restart())
PlayResumes(s, e) ==
    IF getDuration(s) = 0 THEN [s |-> s, el |-> e]
    ELSE [s |-> [s EXCEPT !.isPlaying = TRUE, !.paused = FALSE], el |-> e]

play(s, e) ==
    IF getDuration(s) = 0 THEN [s |-> s, el |-> e]
    ELSE tlRestart([s EXCEPT !.isPlaying = TRUE], e)

\* mutant: pause that rewinds the timeline
PauseRewinds(s, e) ==
    tlProgress([s EXCEPT !.isPlaying = FALSE, !.paused = TRUE], e, 0)

pause(s, e) == [s |-> [s EXCEPT !.isPlaying = FALSE, !.paused = TRUE], el |-> e]

stop(s, e) ==
    LET r == tlProgress([s EXCEPT !.isPlaying = FALSE, !.paused = TRUE], e, 0)
    IN [s |-> r.s, el |-> Apply(r.el, ResetMap)]

restart(s, e) == tlRestart([s EXCEPT !.isPlaying = TRUE], e)

setProgress(s, e, v) == tlProgress(s, e, Max(0, Min(100, v)))

getStatus(s) == [isPlaying |-> s.isPlaying, duration |-> getDuration(s),
                 progress |-> s.time, stepCount |-> Len(s.behavior.steps)]

\* properties: [isObject, map]
updateProperties(s, e, properties) ==
    IF ~s.isPlaying \/ ~properties.isObject THEN [s |-> s, el |-> e]
    ELSE [s |-> s, el |-> Apply(e, properties.map)]

\* one frame of the global ticker for this timeline
Running(s) == ~s.paused /\ getDuration(s) > 0 /\ s.time < getDuration(s)

\* mutant: a frame that never runs the completion callback
TickNoCallback(s, e) ==
    IF ~Running(s) THEN [s |-> s, el |-> e]
    ELSE LET t1 == Min(s.time + TickMs, getDuration(s))
             r  == tlRender(s.children, e, s.time, t1)
         IN [s |-> [s EXCEPT !.children = r.children, !.time = t1], el |-> r.el]

tick(s, e) ==
    IF ~Running(s) THEN [s |-> s, el |-> e]
    ELSE LET dur == getDuration(s)
             t1  == Min(s.time + TickMs, dur)
             r   == tlRender(s.children, e, s.time, t1)
         IN [s |-> [s EXCEPT !.children = r.children, !.time = t1,
                             !.isPlaying = IF t1 = dur /\ s.onComplete THEN FALSE ELSE @],
             el |-> r.el]

\* ------------------------------------------------------ overlay state
VARIABLES
    el,        \* the element's DOM node (elementDiv): its rendered properties
    cur,       \* elementDiv.sequencer: << >> or <<s>>
    orphans,   \* Sequencers no longer referenced whose timelines still run:
               \* [s, by], by "replaced" or "stopped" (how the reference went)
    elem,      \* the element state last received: [playing, behavior]
    emptyPos,  \* how the library reads the position "" ("zero" or "end")
    op,        \* the last operation: [name, from], from the state the
               \* Sequencer was in when the operation began
    vIn,       \* validator input [type, props]
    vOut       \* validator output [ok, errors]

vars == <<el, cur, orphans, elem, emptyPos, op, vIn, vOut>>

\* behaviors the backend sends in this model
bDoc == [isArray |-> TRUE,
         steps |-> << StepOf("appear", "fade-in", 300), StepOf("wait", "", 300),
                      StepOf("disappear", "fade-out", 300) >>]
bProp == [isArray |-> TRUE,
          steps |-> << StepOf("appear", "slide-in", NoDur),
                       AnimProp(<< Entry("opacity", 50, 300, NoMod),
                                   Entry("scale", 120, 900, NoMod) >>) >>]
bSet == [isArray |-> TRUE,
         steps |-> << SetStep(MapOf({<<"opacity", 100>>, <<"color", 1>>})) >>]
bSkip == [isArray |-> TRUE,
          steps |-> << StepOf("appear", "does-not-exist", 300),
                       StepOf("animate", "spin", 300) >>]
bNotArray == [isArray |-> FALSE, steps |-> << >>]

DynBehaviors == {bDoc, bProp, bSet, bSkip, EmptyBehavior}
OverlayBehaviors == {bDoc, bProp, bSet, EmptyBehavior}

PropertyUpdates ==
    { [isObject |-> TRUE, map |-> MapOf({<<"color", 2>>, <<"media_roles", 1>>})],
      [isObject |-> FALSE, map |-> NoMap] }

InitEl(o) == [p \in Props |-> CASE p = "opacity" -> o
                                [] p = "scale"   -> 100
                                [] OTHER         -> 0]

NoElem == [playing |-> FALSE, behavior |-> EmptyBehavior]
NoValidation == [ok |-> TRUE, errors |-> << >>]
NoInput == [type |-> "", props |-> {}]

Init ==
    /\ el \in {InitEl(0), InitEl(100)}
    /\ cur = << >>
    /\ orphans = << >>
    /\ elem = NoElem
    /\ emptyPos \in {"zero", "end"}
    /\ op = [name |-> "init", from |-> "none"]
    /\ vIn = NoInput
    /\ vOut = NoValidation

Rendered(s) == \E i \in 1..Len(s.children) : s.children[i].init

\* the states of section 4.3, read off the Sequencer
StateOf(s) ==
    IF s.isPlaying THEN "playing"
    ELSE IF ~s.paused THEN "complete"
    ELSE IF s.time > 0 THEN "paused"
    ELSE IF Rendered(s) THEN "stopped"
    ELSE IF s.onComplete THEN "built"
    ELSE "idle"

From == IF cur = << >> THEN "none" ELSE StateOf(cur[1])

\* a Sequencer that loses its last reference: its timeline stays on the
\* global ticker for as long as it runs
Released(s, by) == IF Running(s) THEN Append(orphans, [s |-> s, by |-> by]) ELSE orphans

Orphaned == IF cur # << >> THEN Released(cur[1], "replaced") ELSE orphans

\* renderElement(element): the overlay's handling of an element update.  The
\* code shown does not read element.properties: an update that keeps playing
\* and behavior is an update of the properties alone.
renderElement(playing, behavior) ==
    /\ elem' = [playing |-> playing, behavior |-> behavior]
    /\ op' = [name |-> "update", from |-> From]
    /\ UNCHANGED <<emptyPos, vIn, vOut>>
    /\ IF playing
       THEN IF behavior.isArray /\ Len(behavior.steps) > 0
            THEN LET b == build(NewSequencer(behavior), el, emptyPos)
                     r == play(b.s, b.el)
                 IN /\ Len(Orphaned) <= MaxOrphans
                    /\ cur' = <<r.s>>
                    /\ el' = r.el
                    /\ orphans' = Orphaned
            ELSE UNCHANGED <<el, cur, orphans>>
       ELSE IF cur # << >>
            THEN LET r == stop(cur[1], el)
                 IN /\ Len(Released(r.s, "stopped")) <= MaxOrphans
                    /\ el' = r.el
                    /\ cur' = << >>
                    /\ orphans' = Released(r.s, "stopped")
            ELSE UNCHANGED <<el, cur, orphans>>

ElementUpdate ==
    \E playing \in BOOLEAN, behavior \in OverlayBehaviors :
        renderElement(playing, behavior)

\* the update { playing: false } reaching the element, behavior as before
ElementStopped == renderElement(FALSE, elem.behavior)

\* const sequencer = new AnimationSequencer(domElement, behavior): the caller
\* of the API constructs the one Sequencer it then drives
Construct ==
    \E behavior \in DynBehaviors \cup {bNotArray} :
        /\ op.name = "init"
        /\ cur' = <<NewSequencer(behavior)>>
        /\ op' = [name |-> "new", from |-> From]
        /\ UNCHANGED <<el, orphans, elem, emptyPos, vIn, vOut>>

Call(r, name) ==
    /\ cur' = <<r.s>>
    /\ el' = r.el
    /\ op' = [name |-> name, from |-> From]
    /\ UNCHANGED <<orphans, elem, emptyPos, vIn, vOut>>

Build == cur # << >> /\ Call(build(cur[1], el, emptyPos), "build")
Play == cur # << >> /\ Call(play(cur[1], el), "play")
Pause == cur # << >> /\ Call(pause(cur[1], el), "pause")
Stop == cur # << >> /\ Call(stop(cur[1], el), "stop")
Restart == cur # << >> /\ Call(restart(cur[1], el), "restart")
SetProgress == cur # << >> /\ \E v \in {0, 50, 100} : Call(setProgress(cur[1], el, v), "setProgress")
UpdateProperties ==
    cur # << >> /\ \E properties \in PropertyUpdates :
        Call(updateProperties(cur[1], el, properties), "updateProperties")

RECURSIVE TickOrphans(_, _, _)
\* the unreferenced timelines render first (they were created first)
TickOrphans(done, todo, e) ==
    IF todo = << >> THEN [orphans |-> done, el |-> e]
    ELSE LET r == tick(Head(todo).s, e)
         IN TickOrphans(Append(done, [Head(todo) EXCEPT !.s = r.s]), Tail(todo), r.el)

StillRunning(o) == Running(o.s)

\* one animation frame: every timeline of the global ticker renders, in the
\* order of creation; a finished, unreferenced timeline is released
Tick ==
    /\ \/ \E i \in 1..Len(orphans) : Running(orphans[i].s)
       \/ cur # << >> /\ Running(cur[1])
    /\ LET ro == TickOrphans(<< >>, orphans, el)
           rc == IF cur = << >> THEN [s |-> << >>, el |-> ro.el]
                 ELSE LET r == tick(cur[1], ro.el) IN [s |-> <<r.s>>, el |-> r.el]
       IN /\ orphans' = SelectSeq(ro.orphans, StillRunning)
          /\ cur' = rc.s
          /\ el' = rc.el
    /\ op' = [name |-> "tick", from |-> From]
    /\ UNCHANGED <<elem, emptyPos, vIn, vOut>>

\* the Sequencer API driven directly (one Sequencer on the element)
Next ==
    \/ Construct
    \/ Build
    \/ Play
    \/ Pause
    \/ Stop
    \/ Restart
    \/ SetProgress
    \/ UpdateProperties
    \/ ElementStopped
    \/ Tick

Spec == Init /\ [][Next]_vars

\* the overlay: element updates handled by renderElement, property updates
\* passed to the Sequencer stored on the element
NextOverlay ==
    \/ ElementUpdate
    \/ UpdateProperties
    \/ Tick

SpecOverlay == Init /\ [][NextOverlay]_vars

\* ------------------------------------------------- build() as a function
\* Every behavior of at most MaxSteps steps over a pool of valid and invalid
\* steps is built once.
ValidPool ==
    { StepOf("appear", "fade-in", 300),
      AnimProp(<< Entry("opacity", 50, 300, NoMod), Entry("scale", 120, 900, NoMod) >>),
      StepOf("animate", "spin", 300),
      StepOf("wait", "", 300),
      SetStep(MapOf({<<"color", 1>>})),
      StepOf("disappear", "fade-out", 300) }

InvalidPool ==
    { NonObject("null"),
      StepOf("explode", "", 300),
      StepOf("animate", "", 300),
      StepOf("appear", "does-not-exist", 300),
      StepOf("animate", "does-not-exist", 300),
      StepOf("disappear", "does-not-exist", 300),
      StepOf("animate_property", "", NoDur) }

StepPool == ValidPool \cup InvalidPool

PoolBehaviors ==
    UNION { { [isArray |-> TRUE, steps |-> q] : q \in [1..n -> StepPool] } : n \in 0..MaxSteps }

InitBuild ==
    /\ el = InitEl(100)
    /\ \E behavior \in PoolBehaviors : cur = <<NewSequencer(behavior)>>
    /\ orphans = << >>
    /\ elem = NoElem
    /\ emptyPos \in {"zero", "end"}
    /\ op = [name |-> "new", from |-> "none"]
    /\ vIn = NoInput
    /\ vOut = NoValidation

BuildOnce == op.name = "new" /\ Build

NextBuild == BuildOnce

SpecBuild == InitBuild /\ [][NextBuild]_vars

\* ------------------------------------------------- property validator
\* validate_element_properties of the positioning guide.  A value is
\* [t, n, s, f]: its Python type, its number in hundredths, its string, and
\* for a dict its fields; "absent" marks a key that is not in the dict.
MaxKeys == 2

DictFields == {"x", "y", "anchor", "width", "height"}

Scalar(t, n, str) == [t |-> t, n |-> n, s |-> str]

Absent == Scalar("absent", 0, "")

NoFields == [k \in DictFields |-> Absent]

Val(t, n, str) == [t |-> t, n |-> n, s |-> str, f |-> NoFields]

AbsentVal == Val("absent", 0, "")

Dict(fields) ==
    [t |-> "dict", n |-> 0, s |-> "",
     f |-> [k \in DictFields |->
               IF \E p \in fields : p[1] = k
               THEN (CHOOSE p \in fields : p[1] = k)[2] ELSE Absent]]

\* isinstance(v, (int, float)): a bool is an int
IsNumber(v) == v.t \in {"int", "float", "bool"}

\* isinstance(v, int)
IsInt(v) == v.t \in {"int", "bool"}

ELEMENT_PROPERTY_SCHEMAS(element_type) ==
    CASE element_type = "image" ->
             {"position", "size", "opacity", "rotation", "scale_x", "scale_y",
              "z_index", "filter", "aspect_ratio"}
      [] element_type = "audio" -> {"volume", "autoplay", "loop"}
      [] element_type = "animation" -> {}
      [] OTHER -> {}

valid_anchors ==
    {"top-left", "top-center", "top-right", "center-left", "center",
     "center-right", "bottom-left", "bottom-center", "bottom-right"}

_validate_position(position) ==
    IF position.t # "dict" THEN <<"position must be object with x and y">>
    ELSE LET x == position.f["x"]
             y == position.f["y"]
             anchor == position.f["anchor"]
         IN (IF x.t = "absent" THEN <<"position.x is required">>
             ELSE IF ~IsNumber(x) \/ ~(0 <= x.n /\ x.n <= 100)
                  THEN <<"position.x must be number between 0 and 1">> ELSE << >>)
            \o (IF y.t = "absent" THEN <<"position.y is required">>
                ELSE IF ~IsNumber(y) \/ ~(0 <= y.n /\ y.n <= 100)
                     THEN <<"position.y must be number between 0 and 1">> ELSE << >>)
            \o (IF anchor.t # "absent" /\ ~(anchor.t = "str" /\ anchor.s \in valid_anchors)
                THEN <<"anchor must be one of">> ELSE << >>)

_validate_size(size) ==
    IF size.t # "dict" THEN <<"size must be object with width and/or height">>
    ELSE LET width == size.f["width"]
             height == size.f["height"]
         IN (IF width.t = "absent" THEN << >>
             ELSE IF width.t = "str" /\ width.s # "auto"
                  THEN <<"width must be number or 'auto'">>
             ELSE IF IsNumber(width) /\ ~(0 < width.n /\ width.n <= 100)
                  THEN <<"width must be between 0 and 1">> ELSE << >>)
            \o (IF height.t = "absent" THEN << >>
                ELSE IF height.t = "str" /\ height.s # "auto"
                     THEN <<"height must be number or 'auto'">>
                ELSE IF IsNumber(height) /\ ~(0 < height.n /\ height.n <= 100)
                     THEN <<"height must be between 0 and 1">> ELSE << >>)

\* the keys a request can carry, in the order the dict holds them
KeyOrder == <<"foo", "bar", "volume", "opacity", "rotation", "z_index", "position", "size">>

KeyPool == {KeyOrder[i] : i \in 1..Len(KeyOrder)}

RECURSIVE UnknownKeys(_, _, _)
\* for key in properties.keys(): if key not in allowed_keys: errors.append
UnknownKeys(properties, allowed_keys, i) ==
    IF i > Len(KeyOrder) THEN << >>
    ELSE (IF properties[KeyOrder[i]].t # "absent" /\ KeyOrder[i] \notin allowed_keys
          THEN <<"not allowed">> ELSE << >>)
         \o UnknownKeys(properties, allowed_keys, i + 1)

TypeChecks(properties) ==
    (IF properties["position"].t # "absent"
     THEN _validate_position(properties["position"]) ELSE << >>)
    \o (IF properties["size"].t # "absent"
        THEN _validate_size(properties["size"]) ELSE << >>)
    \o (LET opacity == properties["opacity"]
        IN IF opacity.t # "absent" /\ (~IsNumber(opacity) \/ ~(0 <= opacity.n /\ opacity.n <= 100))
           THEN <<"opacity must be number between 0 and 1">> ELSE << >>)
    \o (LET rotation == properties["rotation"]
        IN IF rotation.t # "absent" /\ ~IsNumber(rotation)
           THEN <<"rotation must be number (degrees)">> ELSE << >>)
    \o (LET z == properties["z_index"]
        IN IF z.t # "absent" /\ ~IsInt(z)
           THEN <<"z_index must be integer">> ELSE << >>)

\* mutant: a validator that returns at the first error
ValidateFailFast(element_type, properties) ==
    LET errors == UnknownKeys(properties, ELEMENT_PROPERTY_SCHEMAS(element_type), 1)
                      \o TypeChecks(properties)
        first  == IF errors = << >> THEN << >> ELSE <<Head(errors)>>
    IN [ok |-> Len(first) = 0, errors |-> first]

validate_element_properties(element_type, properties) ==
    LET errors == UnknownKeys(properties, ELEMENT_PROPERTY_SCHEMAS(element_type), 1)
                      \o TypeChecks(properties)
    IN [ok |-> Len(errors) = 0, errors |-> errors]

\* the values a request can give each key
ValuePool(key) ==
    CASE key = "opacity" -> {Val("int", 100, ""), Val("int", 200, ""), Val("float", 50, ""),
                             Val("str", 0, "half")}
      [] key = "rotation" -> {Val("int", 9000, ""), Val("str", 0, "quarter")}
      [] key = "z_index" -> {Val("int", 100, ""), Val("float", 150, ""), Val("bool", 100, "")}
      [] key = "position" ->
             {Val("str", 0, "center"),
              Dict({}),
              Dict({<<"x", Scalar("float", 50, "")>>, <<"y", Scalar("float", 50, "")>>}),
              Dict({<<"x", Scalar("float", 50, "")>>, <<"y", Scalar("float", 50, "")>>,
                    <<"anchor", Scalar("str", 0, "center")>>}),
              Dict({<<"x", Scalar("int", 200, "")>>, <<"y", Scalar("str", 0, "top")>>,
                    <<"anchor", Scalar("str", 0, "middle")>>})}
      [] key = "size" ->
             {Val("int", 100, ""),
              Dict({<<"width", Scalar("str", 0, "auto")>>}),
              Dict({<<"width", Scalar("float", 50, "")>>, <<"height", Scalar("int", 200, "")>>}),
              Dict({<<"width", Scalar("str", 0, "wide")>>, <<"height", Scalar("int", 0, "")>>}),
              Dict({<<"width", Scalar("none", 0, "")>>})}
      [] OTHER -> {Val("int", 100, "")}

ElementTypes == {"image", "audio", "animation", "hologram"}

Present(properties) == {k \in KeyPool : properties[k].t # "absent"}

RECURSIVE DictsOver(_)
DictsOver(K) ==
    IF K = {} THEN {[k \in KeyPool |-> AbsentVal]}
    ELSE LET k == CHOOSE k \in K : TRUE
         IN {[d EXCEPT ![k] = v] : d \in DictsOver(K \ {k}), v \in ValuePool(k)}

\* every dict of at most MaxKeys keys
PropertyDicts == UNION {DictsOver(K) : K \in {K \in SUBSET KeyPool : Cardinality(K) <= MaxKeys}}

InitValidate ==
    /\ el = InitEl(0) /\ cur = << >> /\ orphans = << >> /\ elem = NoElem
    /\ emptyPos = "zero"
    /\ op = [name |-> "init", from |-> "none"]
    /\ vIn \in [type : ElementTypes, props : PropertyDicts]
    /\ vOut = NoValidation

\* ok, errors = validate_element_properties(element_type, properties)
Validate ==
    /\ op.name = "init"
    /\ vOut' = validate_element_properties(vIn.type, vIn.props)
    /\ op' = [name |-> "validate", from |-> "none"]
    /\ UNCHANGED <<el, cur, orphans, elem, emptyPos, vIn>>

NextValidate == Validate

SpecValidate == InitValidate /\ [][NextValidate]_vars

\* ------------------------------------------------ easing of the entries
MaxEntries == 2

\* the values an entry's modulation can have
ModPool ==
    { NoMod,
      [shape |-> "string", name |-> "linear"],
      [shape |-> "string", name |-> "ease-in"],
      [shape |-> "string", name |-> "bouncy"],
      [shape |-> "object", name |-> "ease-out"],
      [shape |-> "object", name |-> "wobble"],
      [shape |-> "object", name |-> ""],
      [shape |-> "other", name |-> ""] }

EntryPool == {Entry("opacity", 50, 300, m) : m \in ModPool}

EaseBehaviors ==
    UNION { { [isArray |-> TRUE, steps |-> <<AnimProp(q)>>] : q \in [1..n -> EntryPool] }
            : n \in 1..MaxEntries }

InitEase ==
    /\ el = InitEl(100)
    /\ \E behavior \in EaseBehaviors : cur = <<NewSequencer(behavior)>>
    /\ orphans = << >>
    /\ elem = NoElem
    /\ emptyPos \in {"zero", "end"}
    /\ op = [name |-> "new", from |-> "none"]
    /\ vIn = NoInput
    /\ vOut = NoValidation

SpecEase == InitEase /\ [][NextBuild]_vars

\* ------------------------------------------- the entries of one step
MaxList == 3

\* entries that resolve and entries that do not
ListPool ==
    { Entry("opacity", 50, 300, NoMod),
      Entry("scale", 120, 900, NoMod),
      Entry("bogus", 1, 300, NoMod),
      NullEntry,
      NumberEntry }

\* an animate_property step followed by a wait
ListBehaviors ==
    UNION { { [isArray |-> TRUE, steps |-> <<AnimProp(q), StepOf("wait", "", 300)>>]
              : q \in [1..n -> ListPool] } : n \in 1..MaxList }

InitList ==
    /\ el = InitEl(100)
    /\ \E behavior \in ListBehaviors : cur = <<NewSequencer(behavior)>>
    /\ orphans = << >>
    /\ elem = NoElem
    /\ emptyPos \in {"zero", "end"}
    /\ op = [name |-> "new", from |-> "none"]
    /\ vIn = NoInput
    /\ vOut = NoValidation

SpecList == InitList /\ [][NextBuild]_vars

\* --------------------------------------------- durations of the steps
\* steps whose duration, or whose entry's duration, is absent, zero or
\* positive
TimedPool ==
    { StepOf("appear", "fade-in", NoDur), StepOf("appear", "fade-in", 0),
      StepOf("appear", "fade-in", 300),
      StepOf("animate", "spin", NoDur), StepOf("animate", "spin", 300),
      StepOf("wait", "", NoDur), StepOf("wait", "", 0), StepOf("wait", "", 300),
      SetStep(MapOf({<<"color", 1>>})),
      StepOf("disappear", "fade-out", NoDur), StepOf("disappear", "fade-out", 0),
      StepOf("disappear", "fade-out", 300),
      AnimProp(<< Entry("opacity", 50, 0, NoMod), Entry("scale", 120, NoDur, NoMod) >>) }

TimedBehaviors ==
    UNION { { [isArray |-> TRUE, steps |-> q] : q \in [1..n -> TimedPool] } : n \in 1..MaxSteps }

InitTimed ==
    /\ el = InitEl(100)
    /\ \E behavior \in TimedBehaviors : cur = <<NewSequencer(behavior)>>
    /\ orphans = << >>
    /\ elem = NoElem
    /\ emptyPos \in {"zero", "end"}
    /\ op = [name |-> "new", from |-> "none"]
    /\ vIn = NoInput
    /\ vOut = NoValidation

SpecTimed == InitTimed /\ [][NextBuild]_vars

\* ------------------------------------------------- one run of a behavior
MaxRunSteps == 2

\* entrance, exit and pause steps
RunPool ==
    { StepOf("appear", "fade-in", 300),
      StepOf("appear", "slide-in", 300),
      StepOf("disappear", "fade-out", 300),
      StepOf("disappear", "", 300),
      StepOf("wait", "", 300) }

RunBehaviors ==
    UNION { { [isArray |-> TRUE, steps |-> q] : q \in [1..n -> RunPool] } : n \in 1..MaxRunSteps }

InitRun ==
    /\ el \in {InitEl(0), InitEl(100)}
    /\ \E behavior \in RunBehaviors : cur = <<NewSequencer(behavior)>>
    /\ orphans = << >>
    /\ elem = NoElem
    /\ emptyPos \in {"zero", "end"}
    /\ op = [name |-> "new", from |-> "none"]
    /\ vIn = NoInput
    /\ vOut = NoValidation

\* sequencer.build().play() and the frames that follow
PlayOnce == op.name = "build" /\ Play

NextRun == BuildOnce \/ PlayOnce \/ Tick

SpecRun == InitRun /\ [][NextRun]_vars

\* Tick's guard: some timeline of the ticker can advance
TickEnabled ==
    \/ \E i \in 1..Len(orphans) : Running(orphans[i].s)
    \/ cur # << >> /\ Running(cur[1])

\* the run with the ticker's guarantee: requestAnimationFrame keeps calling
\* the ticker, so a timeline that can advance does advance.  This is weak
\* fairness of Tick, WF_vars(Tick), with ENABLED <<Tick>>_vars written as
\* Tick's guard (a frame of a running timeline always moves its playhead).
TickFairness == []<>(~TickEnabled) \/ []<><<Tick>>_vars

SpecRunLive == SpecRun /\ TickFairness

\* ================================================================ claims
Built == cur # << >> /\ op.name = "build"

Kids == cur[1].children

StepsOf(s) == s.behavior.steps

\* the tweens step i (from 0) put on the timeline
TweensOf(children, i) == {k \in 1..Len(children) : children[k].step = i}

SetMax(S) == IF S = {} THEN 0 ELSE CHOOSE m \in S : \A n \in S : n <= m

\* where step i is due to start: when every earlier step has finished
DueStart(children, i) ==
    SetMax({EndOf(children[k]) : k \in {k \in 1..Len(children) : children[k].step < i}})

\* what the data model calls a well-formed step: an object of a known type,
\* its required field present (animate: animation; animate_property: a
\* non-empty properties list), its preset name in the Animation Catalog
StepTypes == {"appear", "animate_property", "animate", "wait", "set", "disappear"}

ValidStep(step) ==
    /\ step.shape = "object"
    /\ step.type \in StepTypes
    /\ step.type \in {"appear", "disappear"} =>
           (step.animation = "" \/ step.animation \in AnimationNames)
    /\ step.type = "animate" => step.animation \in AnimationNames
    /\ step.type = "animate_property" => (step.propsShape = "array" /\ Len(step.entries) > 0)

InvalidAt(steps) == {k \in 1..Len(steps) : ~ValidStep(steps[k])}

Without(steps, k) == SubSeq(steps, 1, k - 1) \o SubSeq(steps, k + 1, Len(steps))

\* a timeline without the step numbers of its tweens
Unnumbered(children) == [k \in 1..Len(children) |-> [children[k] EXCEPT !.step = 0]]

\* C3 (as claimed): in the timeline build() produces, a tween of step j
\* starts no earlier than the end of every tween of each step i < j.
C3_StrictStepOrder ==
    Built => \A a, b \in 1..Len(Kids) :
                 Kids[a].step < Kids[b].step => Kids[b].start >= EndOf(Kids[a])

C5_ParallelEntries ==
    Built => \A i \in 1..Len(StepsOf(cur[1])) :
                 StepsOf(cur[1])[i].type = "animate_property" =>
                     /\ \A k \in TweensOf(Kids, i - 1) :
                            Kids[k].start = DueStart(Kids, i - 1)
                     /\ \A k \in TweensOf(Kids, i - 1) :
                            Kids[k].dur = 900 => EndOf(Kids[k]) >= DueStart(Kids, i - 1) + 900

\* the element's visual properties: opacity and the transform
Visual(e) == [p \in {"opacity", "x", "y", "scale", "rotation", "rotationY"} |-> e[p]]

\* C6 (as claimed): stop() on a Sequencer that was never played (idle or
\* built) or is already stopped leaves isPlaying, the progress and the
\* element's opacity and transform as they were.
C6_StopOnIdleNoOp ==
    [][(op'.name = "stop" /\ (op'.from \in {"idle", "built"} \/ op.name = "stop")) =>
           /\ cur'[1].isPlaying = cur[1].isPlaying
           /\ cur'[1].time = cur[1].time
           /\ Visual(el') = Visual(el)]_vars

\* C6 (amended): stop() right after stop() changes nothing at all; stop() on
\* a Sequencer that was never played leaves isPlaying false and the progress
\* at 0, and forces the element to opacity 0 with the transform cleared.
C6_StopIdempotent ==
    [][(op'.name = "stop") =>
           /\ op.name = "stop" => (cur' = cur /\ el' = el)
           /\ op'.from \in {"idle", "built"} =>
                  /\ cur'[1].isPlaying = FALSE /\ cur[1].isPlaying = FALSE
                  /\ cur'[1].time = 0 /\ cur[1].time = 0
                  /\ Visual(el') = Visual(ResetMap)]_vars

\* a built, never played Sequencer was stopped: the element is left reset
C6_Witness ==
    /\ op = [name |-> "stop", from |-> "built"]
    /\ Kids # << >>
    /\ Visual(el) = Visual(Apply(el, ResetMap))

\* C8: play() on a Sequencer whose timeline has zero duration changes neither
\* the Sequencer nor the element: isPlaying false stays false, also as
\* getStatus() reports it, and the timeline stays paused at 0.
C8_PlayEmptyNoOp ==
    [][(op'.name = "play" /\ getDuration(cur[1]) = 0) =>
           /\ cur' = cur /\ el' = el
           /\ ~cur[1].isPlaying =>
                  /\ ~cur'[1].isPlaying
                  /\ ~getStatus(cur'[1]).isPlaying
                  /\ (cur[1].paused => cur'[1].paused)
                  /\ cur'[1].time = 0]_vars

\* play() was called on a built Sequencer all of whose steps were skipped
C8_Witness ==
    /\ op = [name |-> "play", from |-> "built"]
    /\ StepsOf(cur[1]) # << >>
    /\ getDuration(cur[1]) = 0
    /\ ~getStatus(cur[1]).isPlaying /\ cur[1].paused

\* C9: stop() leaves isPlaying false, the timeline paused at 0 and the
\* element at opacity 0 with the transform cleared, whatever the state it is
\* called in; an update with playing false stops the element's Sequencer and
\* drops it, and no stopped timeline is left running on the ticker.
C9_StopResets ==
    [][/\ op'.name = "stop" =>
              /\ ~cur'[1].isPlaying /\ cur'[1].paused /\ cur'[1].time = 0
              /\ Visual(el') = Visual(ResetMap)
       /\ (op'.name = "update" /\ cur # << >>) =>
              /\ cur' = << >>
              /\ Visual(el') = Visual(ResetMap)
              /\ el' = stop(cur[1], el).el
              /\ \A i \in 1..Len(orphans') : orphans'[i].by # "stopped"]_vars

\* a playing element received playing false: its Sequencer is gone
C9_Witness ==
    /\ op = [name |-> "update", from |-> "playing"]
    /\ cur = << >> /\ orphans = << >>
    /\ Visual(el) = Visual(ResetMap)

\* an update of the element that keeps playing true
StaysPlaying == op'.name = "update" /\ elem.playing /\ elem'.playing

\* what a timeline has scheduled, apart from how far it has rendered
Scheduled(children) ==
    [k \in 1..Len(children) |->
        [step |-> children[k].step, kind |-> children[k].kind,
         start |-> children[k].start, dur |-> children[k].dur, to |-> children[k].to]]

\* C1 (as claimed): when an update changes the behavior of a playing
\* element, the old timeline is discarded (no timeline of the old behavior
\* is left running, on the ticker or as the element's Sequencer) and a
\* timeline of the new behavior plays from position 0.
C1_BehaviorChangeRestarts ==
    [][(StaysPlaying /\ elem'.behavior # elem.behavior) =>
           /\ orphans' = << >>
           /\ (cur' # << >> /\ Running(cur'[1])) => cur'[1].behavior = elem'.behavior
           /\ Len(elem'.behavior.steps) > 0 =>
                  /\ cur' # << >>
                  /\ cur'[1].time = 0
                  /\ getDuration(cur'[1]) > 0 => cur'[1].isPlaying]_vars

\* C2 (as claimed): when an update changes only the properties of a playing
\* element whose timeline runs, the timeline's progress, its running/paused
\* status, its scheduled steps and isPlaying are the same after the update.
C2_PropertiesOnlyUndisturbed ==
    [][(StaysPlaying /\ elem'.behavior = elem.behavior /\ cur # << >> /\ cur[1].isPlaying) =>
           /\ cur' # << >>
           /\ cur'[1].time = cur[1].time
           /\ cur'[1].paused = cur[1].paused
           /\ cur'[1].isPlaying = cur[1].isPlaying
           /\ Scheduled(cur'[1].children) = Scheduled(cur[1].children)]_vars

\* C10 (as claimed): while the element's playing flag is true and its
\* Sequencer has a timeline of positive duration, updateProperties(p) with
\* an object p leaves every key of p on the DOM element, at every point of
\* the run, the time after the timeline's end included.
C10_LivePropertyUpdate ==
    [][\A properties \in PropertyUpdates :
           (/\ elem.playing /\ cur # << >> /\ properties.isObject
            /\ getDuration(cur[1]) > 0
            /\ Call(updateProperties(cur[1], el, properties), "updateProperties")) =>
           \A k \in Keys(properties.map) : el'[k] = properties.map[k]]_vars

\* the checks of section 4.1 that a dict fails, by name
FailedChecks(properties) ==
    LET has(k) == properties[k].t # "absent"
        pos == properties["position"]
        size == properties["size"]
        inUnit(v) == IsNumber(v) /\ 0 <= v.n /\ v.n <= 100
        badDim(v) == \/ v.t = "str" /\ v.s # "auto"
                     \/ IsNumber(v) /\ ~(0 < v.n /\ v.n <= 100)
    IN {c \in {"position", "position.x", "position.y", "position.anchor", "size",
               "size.width", "size.height", "opacity", "rotation", "z_index"} :
           CASE c = "position" -> has("position") /\ pos.t # "dict"
             [] c = "position.x" -> has("position") /\ pos.t = "dict" /\ ~inUnit(pos.f["x"])
             [] c = "position.y" -> has("position") /\ pos.t = "dict" /\ ~inUnit(pos.f["y"])
             [] c = "position.anchor" ->
                    /\ has("position") /\ pos.t = "dict" /\ pos.f["anchor"].t # "absent"
                    /\ pos.f["anchor"].s \notin valid_anchors
             [] c = "size" -> has("size") /\ size.t # "dict"
             [] c = "size.width" -> has("size") /\ size.t = "dict" /\ badDim(size.f["width"])
             [] c = "size.height" -> has("size") /\ size.t = "dict" /\ badDim(size.f["height"])
             [] c = "opacity" -> has("opacity") /\ ~inUnit(properties["opacity"])
             [] c = "rotation" -> has("rotation") /\ ~IsNumber(properties["rotation"])
             [] c = "z_index" -> has("z_index") /\ ~IsInt(properties["z_index"])}

\* validate("image", {foo: 1, opacity: 2})
FooOpacity == [[k \in KeyPool |-> AbsentVal] EXCEPT !["foo"] = Val("int", 100, ""),
                                                   !["opacity"] = Val("int", 200, "")]

UnknownAnimation(step) ==
    /\ step.shape = "object"
    /\ step.type \in {"appear", "animate", "disappear"}
    /\ step.animation # "" /\ step.animation \notin AnimationNames

C12_NonArrayLeavesIdle ==
    (cur # << >> /\ op.name = "build" /\ ~cur[1].behavior.isArray) =>
        /\ getDuration(cur[1]) = 0
        /\ ~cur[1].isPlaying
        /\ cur[1].paused
        /\ play(cur[1], el) = [s |-> cur[1], el |-> el]

\* C13 (as claimed): restart() ends in the state play() would end in from
\* the same Sequencer state: same isPlaying, same timeline position, same
\* running status, the Sequencer with an empty timeline included.
C13_RestartIsPlay ==
    [][(op'.name = "restart") =>
           LET p == play(cur[1], el).s
           IN /\ cur'[1].isPlaying = p.isPlaying
              /\ cur'[1].time = p.time
              /\ cur'[1].paused = p.paused]_vars

\* C14 (as claimed): updateProperties(p) on a playing Sequencer writes to the
\* element only the keys of p that are live-updatable (position, opacity,
\* color, size, rotation, scale); any other key of p, such as media_roles,
\* is left on the element as it was.
C14_OnlyLiveUpdatable ==
    [][\A properties \in PropertyUpdates :
           (/\ cur # << >> /\ cur[1].isPlaying /\ Running(cur[1]) /\ properties.isObject
            /\ Call(updateProperties(cur[1], el, properties), "updateProperties")) =>
           LET live == {"opacity", "x", "y", "scale", "rotation", "rotationY", "color"}
           IN \A k \in Keys(properties.map) \ live : el'[k] = el[k]]_vars

\* C15: build() on an array behavior leaves the timeline a first build()
\* gives (same steps at the same positions, same duration, the completion
\* callback attached), whatever was on the timeline before; and build()
\* directly after build() changes neither the Sequencer nor the element.
C15_BuildIdempotent ==
    [][(op'.name = "build" /\ cur[1].behavior.isArray) =>
           LET once == build(NewSequencer(cur[1].behavior), el, emptyPos).s
           IN /\ Scheduled(cur'[1].children) = Scheduled(once.children)
              /\ Len(cur'[1].children) = Len(once.children)
              /\ getDuration(cur'[1]) = getDuration(once)
              /\ cur'[1].onComplete
              /\ op.name = "build" => (cur' = cur /\ el' = el)]_vars

\* build() was called on a built Sequencer with steps on its timeline
C15_Witness ==
    /\ op = [name |-> "build", from |-> "built"]
    /\ Len(Kids) > 1
    /\ getDuration(cur[1]) > 0

\* C16: pause() on a playing Sequencer clears isPlaying, pauses the timeline
\* where it is (the progress is not reset) and leaves the element's opacity
\* and transform as they were; the paused timeline does not advance.
C16_PauseFreezes ==
    [][(op'.name = "pause" /\ cur[1].isPlaying) =>
           /\ ~cur'[1].isPlaying
           /\ cur'[1].paused /\ ~Running(cur'[1])
           /\ cur'[1].time = cur[1].time
           /\ cur'[1].children = cur[1].children
           /\ Visual(el') = Visual(el)]_vars

\* a Sequencer was paused in mid-run
C16_Witness ==
    /\ op = [name |-> "pause", from |-> "playing"]
    /\ cur[1].time > 0 /\ cur[1].time < getDuration(cur[1])
    /\ cur[1].paused /\ ~cur[1].isPlaying

\* a modulation that names no easing of the Easing Catalog
UnknownEasing(modulation) ==
    modulation.shape = "other" \/
    (modulation.shape \in {"string", "object"} /\ modulation.name \notin EasingNames)

Driving ==
    Len(SelectSeq(orphans, StillRunning))
    + (IF cur # << >> /\ Running(cur[1]) THEN 1 ELSE 0)

\* C18 (as claimed): at any time at most one timeline drives the element:
\* no timeline started by an earlier update is still running next to (or
\* instead of) the one of the element's Sequencer.
C18_OneTimelinePerElement == Driving <= 1 /\ orphans = << >>

\* the element can be seen
Visible(e) == e["opacity"] # 0 /\ e["visibility"] = 0

\* the tweens of s that have rendered are tweens of appear steps
OnlyAppearRendered(s) ==
    \A k \in 1..Len(s.children) : s.children[k].init => s.children[k].kind = "fromTo"

\* C19 (as claimed): when playback reaches an appear step while the element
\* is visible (play() or restart() from a point where only appear steps have
\* run), the element's opacity and transform stay as they are: the entrance
\* is not replayed from its start values.
C19_AppearNoOpWhenVisible ==
    [][(/\ cur # << >> /\ Visible(el) /\ op'.name \in {"play", "restart"}
        /\ OnlyAppearRendered(cur[1]) /\ OnlyAppearRendered(cur'[1])) =>
           Visual(el') = Visual(el)]_vars

\* playback stands at the end of an appear step whose preset ends opaque,
\* and no later step has begun
AppearCompleted ==
    /\ cur # << >> /\ op.name = "tick"
    /\ \E k \in 1..Len(Kids) :
           /\ Kids[k].kind = "fromTo" /\ Kids[k].init
           /\ Kids[k].to["opacity"] = 100
           /\ EndOf(Kids[k]) = cur[1].time
           /\ \A j \in 1..Len(Kids) : Kids[j].start >= EndOf(Kids[k]) => ~Kids[j].init

\* C20 (as claimed): when an appear step has completed the element is
\* visible, also when an earlier disappear step of the run had hidden it.
C20_VisibleAfterAppear == AppearCompleted => Visible(el)

\* the tween of the exit preset and the hiding set of disappear step i (from 0)
ExitTweens(children, i) == {k \in TweensOf(children, i) : children[k].kind = "to"}

HideTweens(children, i) ==
    {k \in TweensOf(children, i) : children[k].kind = "set" /\ children[k].to = HiddenMap}

\* C21 (as claimed): a disappear step puts its exit preset on the timeline
\* for the step's full duration and the hiding of the element at the end of
\* that preset, not before, and every tween of the step that follows starts
\* no earlier than the hiding.
C21_HideAfterExit ==
    Built => \A i \in 1..Len(StepsOf(cur[1])) :
                 (StepsOf(cur[1])[i].type = "disappear" /\ ValidStep(StepsOf(cur[1])[i])) =>
                     /\ Cardinality(ExitTweens(Kids, i - 1)) = 1
                     /\ Cardinality(HideTweens(Kids, i - 1)) = 1
                     /\ \A k \in ExitTweens(Kids, i - 1), h \in HideTweens(Kids, i - 1) :
                            /\ Kids[k].dur = OrDefault(StepsOf(cur[1])[i].duration,
                                                       DefaultDisappearMs)
                            /\ Kids[h].start = EndOf(Kids[k])
                            /\ \A j \in TweensOf(Kids, i) : Kids[j].start >= Kids[h].start

\* maxDuration of an animate_property step: the longest of its entries
MaxEntryMs(step) ==
    SetMax({OrDefault(step.entries[k].duration, DefaultEntryMs) : k \in 1..Len(step.entries)})

\* C22 (as claimed): an animate_property step occupies the duration of its
\* longest entry on the timeline: the timeline ends, and a following step
\* starts, max(entry durations) after the point where the step was due to
\* start.
C22_LongestEntryGates ==
    Built => \A i \in 1..Len(StepsOf(cur[1])) :
                 (StepsOf(cur[1])[i].type = "animate_property" /\ TweensOf(Kids, i - 1) # {}) =>
                     LET end == DueStart(Kids, i - 1) + MaxEntryMs(StepsOf(cur[1])[i])
                     IN /\ DueStart(Kids, i) = end
                        /\ \A j \in TweensOf(Kids, i) :
                               StepsOf(cur[1])[i + 1].type # "animate_property" =>
                                   Kids[j].start = end

\* an entry that resolves: an object that names a property of the element
Resolves(e) == e.shape = "object" /\ e.property \in Props

\* the tweens of step i that animate a property, in the order they were added
RECURSIVE Animating(_, _)
Animating(children, i) ==
    IF children = << >> THEN << >>
    ELSE (IF Head(children).step = i /\ Head(children).to # NoMap
          THEN <<[to |-> Head(children).to, dur |-> Head(children).dur]>> ELSE << >>)
         \o Animating(Tail(children), i)

\* what the entries that resolve ask for, in list order
RECURSIVE Asked(_)
Asked(entries) ==
    IF entries = << >> THEN << >>
    ELSE (IF Resolves(Head(entries))
          THEN <<[to |-> EntryTo(Head(entries)),
                  dur |-> OrDefault(Head(entries).duration, DefaultEntryMs)]>> ELSE << >>)
         \o Asked(Tail(entries))

\* C23 (as claimed): in an animate_property step every entry that resolves
\* has its tween on the timeline, with its target value and duration, whether
\* it stands before or after an entry that does not resolve, and the step
\* after the animate_property step is scheduled.
C23_OnlyFailingEntrySkipped ==
    Built => /\ Animating(Kids, 0) = Asked(StepsOf(cur[1])[1].entries)
             /\ TweensOf(Kids, 1) # {}

\* a behavior made only of set steps
SetOnly(s) ==
    /\ StepsOf(s) # << >>
    /\ \A k \in 1..Len(StepsOf(s)) : StepsOf(s)[k].shape = "object" /\ StepsOf(s)[k].type = "set"

\* C24 (as claimed): after play() on a built Sequencer whose behavior is made
\* only of set steps, the element has the values of every set step.
C24_SetOnlyApplied ==
    [][(op'.name = "play" /\ SetOnly(cur[1]) /\ cur[1].children # << >>) =>
           \A k \in 1..Len(cur'[1].children) :
               \A p \in Keys(cur'[1].children[k].to) : el'[p] = cur'[1].children[k].to[p]]_vars

\* the timeline of the Sequencer stands at its end
AtEnd == cur[1].time = getDuration(cur[1]) /\ \A k \in 1..Len(Kids) : EndOf(Kids[k]) <= cur[1].time

\* C25: after play() on a built timeline of positive duration that nothing
\* interrupts, the timeline eventually stands at its end with isPlaying
\* false; and a frame clears isPlaying only when it brings the timeline to
\* its end, every scheduled step finished.
C25_Completion ==
    /\ [][(op'.name = "tick" /\ cur[1].isPlaying /\ ~cur'[1].isPlaying) =>
              (AtEnd' /\ cur[1].time < getDuration(cur[1]))]_vars
    /\ (op.name = "play" /\ cur[1].isPlaying) ~> (~cur[1].isPlaying /\ AtEnd)

\* a run of two steps has come to its end and the callback has run
C25_Witness ==
    /\ op = [name |-> "tick", from |-> "playing"]
    /\ Len(Kids) >= 2 /\ AtEnd /\ getDuration(cur[1]) > TickMs
    /\ ~cur[1].isPlaying /\ ~cur[1].paused

\* C26: play() on a built timeline of positive duration puts the playhead at
\* position 0, with the element rendered for position 0, sets isPlaying and
\* lets the timeline run, from whatever state it is called in (paused in
\* mid-run, moved by setProgress, stopped, complete): it never resumes.
C26_PlayFromZero ==
    [][(op'.name = "play" /\ getDuration(cur[1]) > 0) =>
           /\ cur'[1].time = 0
           /\ cur'[1].isPlaying
           /\ ~cur'[1].paused
           /\ el' = tlRender(cur[1].children, el, cur[1].time, 0).el
           /\ Scheduled(cur'[1].children) = Scheduled(cur[1].children)]_vars

\* play() was called on a Sequencer paused in mid-run
C26_Witness ==
    /\ op = [name |-> "play", from |-> "paused"]
    /\ cur[1].time = 0 /\ cur[1].isPlaying /\ ~cur[1].paused
    /\ getDuration(cur[1]) > TickMs

\* C27 (as claimed): build() on an array behavior leaves the Sequencer
\* built and paused: isPlaying false, the timeline paused at position 0, also
\* when build() is called while the Sequencer is playing.
C27_BuiltPaused ==
    [][(/\ op'.name = "build" /\ cur[1].behavior.isArray
        /\ cur[1].isPlaying => Running(cur[1])) =>
           /\ ~cur'[1].isPlaying
           /\ cur'[1].paused
           /\ cur'[1].time = 0]_vars

\* C28 (as claimed): whenever isPlaying is true, the timeline has a positive
\* duration, is not paused and has not reached its end.
C28_PlayingMeansRunning ==
    (cur # << >> /\ cur[1].isPlaying) =>
        /\ getDuration(cur[1]) > 0
        /\ ~cur[1].paused
        /\ cur[1].time < getDuration(cur[1])

\* the duration a step asks for: the value of its duration field, the
\* step type's default when the field is absent, nothing for a set step
AskedMs(step) ==
    LET dflt == CASE step.type = "appear"    -> DefaultAppearMs
                  [] step.type = "animate"   -> DefaultAnimateMs
                  [] step.type = "wait"      -> DefaultWaitMs
                  [] step.type = "disappear" -> DefaultDisappearMs
                  [] OTHER                   -> 0
    IN IF step.type = "set" THEN 0
       ELSE IF step.duration = NoDur THEN dflt ELSE step.duration

RECURSIVE SumMs(_)
SumMs(steps) == IF steps = << >> THEN 0 ELSE AskedMs(Head(steps)) + SumMs(Tail(steps))

\* C29 (as claimed): for a behavior of valid appear, animate, wait, set and
\* disappear steps the duration of the built timeline is the sum of the
\* durations the steps ask for (the default where the field is absent, 0 for
\* a set step), and every tween of the step after a wait starts no earlier
\* than the wait ends.
C29_DurationIsSum ==
    (Built /\ \A i \in 1..Len(StepsOf(cur[1])) :
                  StepsOf(cur[1])[i].type # "animate_property") =>
        /\ getDuration(cur[1]) = SumMs(StepsOf(cur[1]))
        /\ \A i \in 1..Len(StepsOf(cur[1])) :
               StepsOf(cur[1])[i].type = "wait" =>
                   \A w \in TweensOf(Kids, i - 1), j \in TweensOf(Kids, i) :
                       Kids[j].start >= EndOf(Kids[w])

\* C30 (as claimed): a step, or an entry of an animate_property step, that
\* gives its duration, 0 included, is on the timeline with exactly that
\* duration.
C30_ExplicitDurationKept ==
    Built => \A i \in 1..Len(StepsOf(cur[1])) :
                 LET step == StepsOf(cur[1])[i] IN
                 /\ (step.type \in {"appear", "animate", "wait", "disappear"}
                     /\ step.duration # NoDur) =>
                        \A k \in TweensOf(Kids, i - 1) :
                            Kids[k].kind # "set" => Kids[k].dur = step.duration
                 /\ step.type = "animate_property" =>
                        \A n \in 1..Len(step.entries) :
                            step.entries[n].duration # NoDur =>
                                Animating(Kids, i - 1)[n].dur = step.entries[n].duration

====
